---- MODULE Spec2Model ----
(***************************************************************************)
(* Model of jbonadiman/humblebundle-scraper:                                *)
(*   - the package-metadata (OPF) builder, in its two packages              *)
(*     (internal/models/epub and internal/models), and                      *)
(*   - the book-info extraction pipeline (GetBookInfo) with its code        *)
(*     validator, in the three variants kept in the repository.             *)
(* Strings the code only stores or concatenates are TLA+ strings; strings   *)
(* the code inspects character by character (ASIN, ISBN, page texts) are    *)
(* sequences of one-character strings.                                      *)
(***************************************************************************)
EXTENDS Integers, Sequences, FiniteSets, TLC

VARIABLES
    pkg,         \* which OPF package the document belongs to: "epub" | "models"
    opf,         \* the OPF document (the fields the builder writes)
    ret,         \* <<r>>: the ContributorElement the last AddContributor call returned; <<>> if none
    titleTypes,  \* history: the TitleType passed to the k-th AddTitle call
    op,          \* history: the last builder operation and its arguments
    variant,     \* which GetBookInfo of the repository runs
    asin, isbn,  \* GetBookInfo's inputs
    pc,          \* the pipeline's position
    codeRes,     \* what the code validation returned: [out, code, err]
    fields,      \* the locals GetBookInfo has assigned so far
    page,        \* history: what the page held under the author and cover selectors
    steps,       \* history: the pipeline steps executed, in order
    failedAt,    \* history: the steps whose own operation failed, in order
    rec,         \* the BookInfo returned
    err          \* the error returned ("" is nil)

builderVars == <<pkg, opf, ret, titleTypes, op>>
scrapeVars  == <<variant, asin, isbn, pc, codeRes, fields, page, steps, failedAt, rec, err>>
vars == <<pkg, opf, ret, titleTypes, op,
          variant, asin, isbn, pc, codeRes, fields, page, steps, failedAt, rec, err>>

----------------------------------------------------------------------------
(* Bounds *)

MaxMetas == 6        \* appending operations are offered while Len(Metas) < MaxMetas

----------------------------------------------------------------------------
(* Small input sets *)

Versions   == {"3.0", "3.0.1"}
Langs      == {"pt-BR"}
TitleTexts == {"O cheiro do ralo"}
Names      == {"Jane Doe"}
SortNames  == {"Doe, Jane"}
Scripts    == {"alt"}
Uuids      == {"u1"}
Times      == {<<2019, 11, 1>>}
Descrs     == {"Descricao"}
Publishers == {"Companhia das Letras"}
TitleKinds == {"Main", "Subtitle", "Expanded"}   \* the title types callers pass

----------------------------------------------------------------------------
(* fmt.Sprintf("%02d", n) and time.Format(time.RFC3339) for a UTC midnight *)

Pad2(n) == IF n < 10 THEN "0" \o ToString(n) ELSE ToString(n)

Pad4(n) ==
    IF n < 10 THEN "000" \o ToString(n)
    ELSE IF n < 100 THEN "00" \o ToString(n)
    ELSE IF n < 1000 THEN "0" \o ToString(n)
    ELSE ToString(n)

FormatRFC3339(t) ==
    Pad4(t[1]) \o "-" \o Pad2(t[2]) \o "-" \o Pad2(t[3]) \o "T00:00:00Z"

----------------------------------------------------------------------------
(* TitleType and ContributorRole *)

TitleType == {"Main", "Subtitle", "Short", "Collection", "Edition", "Expanded"}

TitleTypeString(s) ==
    CASE s = "Main"       -> "main"
      [] s = "Subtitle"   -> "subtitle"
      [] s = "Short"      -> "short"
      [] s = "Collection" -> "collection"
      [] s = "Edition"    -> "edition"
      [] s = "Expanded"   -> "expanded"

ContributorRole == {"Author", "Translator", "Editor", "Illustrator"}

ContributorRoleString(s) ==
    CASE s = "Author"      -> "aut"
      [] s = "Translator"  -> "trl"
      [] s = "Editor"      -> "edt"
      [] s = "Illustrator" -> "ill"

----------------------------------------------------------------------------
(* The builder's operations, as functions from document to document *)

MetaElement(value, refines, property, scheme, xmlLang) ==
    [Value |-> value, Refines |-> refines, Property |-> property,
     Scheme |-> scheme, XMLLanguage |-> xmlLang]

\* epub: "title%02d"; models: "title%d"
TitleId(p, n) == IF p = "epub" THEN "title" \o Pad2(n) ELSE "title" \o ToString(n)

AddTitle(p, d, title, titleType) ==
    LET titleId == TitleId(p, Len(d.Titles) + 1) IN
    [d EXCEPT !.Titles = Append(@, [Value |-> title, ID |-> titleId]),
              !.Metas  = Append(@, MetaElement(TitleTypeString(titleType),
                                               "#" \o titleId, "title-type", "", ""))]

\* an earlier modification date replaced instead of a further one appended
SetModificationDate_Replacing(d, date) ==
    LET NotModified(m) == m.Property # "dcterms:modified"
    IN [d EXCEPT !.Metas = Append(SelectSeq(@, NotModified),
                                  MetaElement(FormatRFC3339(date), "",
                                              "dcterms:modified", "", ""))]

SetModificationDate(d, date) ==
    [d EXCEPT !.Metas = Append(@, MetaElement(FormatRFC3339(date), "",
                                              "dcterms:modified", "", ""))]

\* a single counter shared by creators and contributors
ContributorId_SharedCounter(d, role) ==
    IF role = "Author"
    THEN "creator" \o Pad2(Len(d.Creators) + Len(d.Contributors) + 1)
    ELSE "contributor" \o Pad2(Len(d.Creators) + Len(d.Contributors) + 1)

ContributorId(d, role) ==
    IF role = "Author"
    THEN "creator" \o Pad2(Len(d.Creators) + 1)
    ELSE "contributor" \o Pad2(Len(d.Contributors) + 1)

\* the ContributorElement AddContributor builds, appends and returns the address of
NewContributor(d, contributorName, role) ==
    [Value |-> contributorName, ID |-> ContributorId(d, role)]

AddContributor(d, contributorName, role) ==
    LET contributor == NewContributor(d, contributorName, role)
        withElem == IF role = "Author"
                    THEN [d EXCEPT !.Creators = Append(@, contributor)]
                    ELSE [d EXCEPT !.Contributors = Append(@, contributor)]
    IN [withElem EXCEPT !.Metas = Append(@, MetaElement(ContributorRoleString(role),
                                                        "#" \o contributor.ID,
                                                        "role", "marc:relators", ""))]

AddAlternateNameToContributor(d, contributor, script, lang) ==
    [d EXCEPT !.Metas = Append(@, MetaElement(script, "#" \o contributor.ID,
                                              "alternate-script", "", lang))]

AddSortNameToContributor(d, contributor, sortName) ==
    [d EXCEPT !.Metas = Append(@, MetaElement(sortName, "#" \o contributor.ID,
                                              "file-as", "", ""))]

SetDescription(d, description) == [d EXCEPT !.Description = description]

SetPublisher(d, publisher) == [d EXCEPT !.Publisher = publisher]

SetPublicationDate(d, date) == [d EXCEPT !.Date = FormatRFC3339(date)]

\* the identifier element's id written separately from the unique-identifier attribute
EmptyOPF_OtherIdentifierId(p, epubVersion, lang, uuid) ==
    [Version |-> epubVersion, XMLLanguage |-> lang, UniqueID |-> "pub_id",
     Identifier |-> << [Value |-> "urn:uuid:" \o uuid, ID |-> "uuid_id"] >>,
     Language |-> lang,
     Titles |-> << >>, Creators |-> << >>, Contributors |-> << >>,
     Date |-> "", Description |-> "", Publisher |-> "",
     Metas |-> << MetaElement("uuid", "#" \o "pub_id", "identifier-type", "", "") >>]

\* the document literal NewOPF starts from, per package
EmptyOPF(p, epubVersion, lang, uuid) ==
    IF p = "epub"
    THEN [Version |-> epubVersion, XMLLanguage |-> lang, UniqueID |-> "pub_id",
          Identifier |-> << [Value |-> "urn:uuid:" \o uuid, ID |-> "pub_id"] >>,
          Language |-> lang,
          Titles |-> << >>, Creators |-> << >>, Contributors |-> << >>,
          Date |-> "", Description |-> "", Publisher |-> "",
          Metas |-> << MetaElement("uuid", "#" \o "pub_id", "identifier-type", "", "") >>]
    ELSE [Version |-> epubVersion, XMLLanguage |-> lang, UniqueID |-> "uuid_id",
          Identifier |-> << [Value |-> uuid, ID |-> "uuid_id", Scheme |-> "uuid"] >>,
          Language |-> "",
          Titles |-> << >>, Creators |-> << >>, Contributors |-> << >>,
          Date |-> "", Description |-> "", Publisher |-> "",
          Metas |-> << >>]

\* the modification date set whatever the version
NewOPF_AlwaysModified(p, epubVersion, lang, mainTitle, mainAuthor, uuid, now) ==
    LET d0 == EmptyOPF(p, epubVersion, lang, uuid)
        d1 == AddTitle(p, d0, mainTitle, "Main")
        d2 == IF p = "epub" THEN AddContributor(d1, mainAuthor, "Author") ELSE d1
    IN SetModificationDate(d2, now)

NewOPF(p, epubVersion, lang, mainTitle, mainAuthor, uuid, now) ==
    LET d0 == EmptyOPF(p, epubVersion, lang, uuid)
        d1 == AddTitle(p, d0, mainTitle, "Main")
        d2 == IF p = "epub" THEN AddContributor(d1, mainAuthor, "Author") ELSE d1
    IN IF epubVersion = "3.0" THEN SetModificationDate(d2, now) ELSE d2

----------------------------------------------------------------------------
(* Contributor references a caller can hold *)

\* ContributorElement values that are no element of any document
ForeignRefs == { [Value |-> "Ghost", ID |-> "contributor07"], [Value |-> "", ID |-> ""] }

\* &opf.Metadata.Creators[i], &opf.Metadata.Contributors[i], the pointer the
\* last AddContributor returned, or a ContributorElement of the caller's own
CallerRefs(d, r) ==
    { d.Creators[i] : i \in 1..Len(d.Creators) }
      \cup { d.Contributors[i] : i \in 1..Len(d.Contributors) }
      \cup { r[i] : i \in 1..Len(r) }
      \cup ForeignRefs

NoRef == [Value |-> "", ID |-> ""]

Op(name, text, kind, ref) == [name |-> name, text |-> text, kind |-> kind, ref |-> ref]

----------------------------------------------------------------------------
(* Builder: initial state and actions *)

ScrapeIdle ==
    /\ variant = "parseBookCode"
    /\ asin = << >> /\ isbn = << >>
    /\ pc = "idle"
    /\ codeRes = [out |-> "none", code |-> << >>, err |-> ""]
    /\ fields = << >>
    /\ page = << >>
    /\ steps = << >>
    /\ failedAt = << >>
    /\ rec = << >>
    /\ err = ""

InitBuilder ==
    /\ pkg \in {"epub", "models"}
    /\ \E v \in Versions, l \in Langs, t \in TitleTexts, a \in Names,
          u \in Uuids, now \in Times :
          /\ opf = NewOPF(pkg, v, l, t, a, u, now)
          /\ op = Op("NewOPF", t, a, NoRef)
    /\ ret = << >>
    /\ titleTypes = << "Main" >>
    /\ ScrapeIdle

CanAppend == Len(opf.Metas) < MaxMetas

DoAddTitle ==
    /\ CanAppend
    /\ \E t \in TitleTexts, tt \in TitleKinds :
          /\ opf' = AddTitle(pkg, opf, t, tt)
          /\ titleTypes' = Append(titleTypes, tt)
          /\ op' = Op("AddTitle", t, tt, NoRef)
    /\ UNCHANGED <<pkg, ret>>
    /\ UNCHANGED scrapeVars

DoSetModificationDate ==
    /\ CanAppend
    /\ \E t \in Times :
          /\ opf' = SetModificationDate(opf, t)
          /\ op' = Op("SetModificationDate", FormatRFC3339(t), "", NoRef)
    /\ UNCHANGED <<pkg, ret, titleTypes>>
    /\ UNCHANGED scrapeVars

DoAddContributor ==
    /\ pkg = "epub"
    /\ CanAppend
    /\ \E n \in Names, r \in ContributorRole :
          /\ opf' = AddContributor(opf, n, r)
          /\ ret' = << NewContributor(opf, n, r) >>
          /\ op' = Op("AddContributor", n, r, NoRef)
    /\ UNCHANGED <<pkg, titleTypes>>
    /\ UNCHANGED scrapeVars

DoAddAlternateNameToContributor ==
    /\ pkg = "epub"
    /\ CanAppend
    /\ \E c \in CallerRefs(opf, ret), s \in Scripts, l \in Langs :
          /\ opf' = AddAlternateNameToContributor(opf, c, s, l)
          /\ op' = Op("AddAlternateNameToContributor", s, l, c)
    /\ UNCHANGED <<pkg, ret, titleTypes>>
    /\ UNCHANGED scrapeVars

DoAddSortNameToContributor ==
    /\ pkg = "epub"
    /\ CanAppend
    /\ \E c \in CallerRefs(opf, ret), s \in SortNames :
          /\ opf' = AddSortNameToContributor(opf, c, s)
          /\ op' = Op("AddSortNameToContributor", s, "", c)
    /\ UNCHANGED <<pkg, ret, titleTypes>>
    /\ UNCHANGED scrapeVars

DoSetDescription ==
    /\ pkg = "epub"
    /\ \E x \in Descrs :
          /\ opf' = SetDescription(opf, x)
          /\ op' = Op("SetDescription", x, "", NoRef)
    /\ UNCHANGED <<pkg, ret, titleTypes>>
    /\ UNCHANGED scrapeVars

DoSetPublisher ==
    /\ pkg = "epub"
    /\ \E x \in Publishers :
          /\ opf' = SetPublisher(opf, x)
          /\ op' = Op("SetPublisher", x, "", NoRef)
    /\ UNCHANGED <<pkg, ret, titleTypes>>
    /\ UNCHANGED scrapeVars

DoSetPublicationDate ==
    /\ pkg = "epub"
    /\ \E t \in Times :
          /\ opf' = SetPublicationDate(opf, t)
          /\ op' = Op("SetPublicationDate", FormatRFC3339(t), "", NoRef)
    /\ UNCHANGED <<pkg, ret, titleTypes>>
    /\ UNCHANGED scrapeVars

\* UpdateBookInfo: the three setters in one call
DoUpdateBookInfo ==
    /\ pkg = "epub"
    /\ \E x \in Descrs, p \in Publishers, t \in Times :
          /\ opf' = SetPublicationDate(SetPublisher(SetDescription(opf, x), p), t)
          /\ op' = Op("UpdateBookInfo", x, p, NoRef)
    /\ UNCHANGED <<pkg, ret, titleTypes>>
    /\ UNCHANGED scrapeVars

NextBuilder ==
    \/ DoAddTitle
    \/ DoSetModificationDate
    \/ DoAddContributor
    \/ DoAddAlternateNameToContributor
    \/ DoAddSortNameToContributor
    \/ DoSetDescription
    \/ DoSetPublisher
    \/ DoSetPublicationDate
    \/ DoUpdateBookInfo

SpecBuilder == InitBuilder /\ [][NextBuilder]_vars

----------------------------------------------------------------------------
(* Code validation: parseBookCode, validateBookCode, getBookCode *)

Variants == {"parseBookCode", "validateBookCode", "getBookCode"}

Digits == {"0", "1", "2", "3", "4", "5", "6", "7", "8", "9"}

\* strings.ToLower on the letters of the input alphabet
ToLowerChar(c) ==
    CASE c = "A" -> "a"
      [] c = "B" -> "b"
      [] c = "X" -> "x"
      [] OTHER   -> c

ToLower(s) == [i \in 1..Len(s) |-> ToLowerChar(s[i])]

HasPrefix(s, prefix) ==
    /\ Len(s) >= Len(prefix)
    /\ SubSeq(s, 1, Len(prefix)) = prefix

\* one (?:\d[\d-]{0,4}) group
IsbnGroup(g) ==
    /\ Len(g) \in 1..5
    /\ g[1] \in Digits
    /\ \A i \in 2..Len(g) : g[i] \in Digits \cup {"-"}

\* ^(?:\d[\d-]{0,4}){3}[\dX]$
IsbnPatternMatch(s) ==
    /\ Len(s) >= 4
    /\ s[Len(s)] \in Digits \cup {"X"}
    /\ \E a \in 1..5, b \in 1..5 :
          LET c == Len(s) - 1 - a - b IN
          /\ c \in 1..5
          /\ IsbnGroup(SubSeq(s, 1, a))
          /\ IsbnGroup(SubSeq(s, a + 1, a + b))
          /\ IsbnGroup(SubSeq(s, a + b + 1, a + b + c))

\* int(char - '0')
CharMinusZero(c) ==
    CASE c = "0" -> 0 [] c = "1" -> 1 [] c = "2" -> 2 [] c = "3" -> 3 [] c = "4" -> 4
      [] c = "5" -> 5 [] c = "6" -> 6 [] c = "7" -> 7 [] c = "8" -> 8 [] c = "9" -> 9
      [] c = "-" -> 0 - 3
      [] c = "X" -> 40

\* Go's %: the result has the sign of the dividend
GoRem(a, b) == IF a >= 0 THEN a % b ELSE 0 - ((0 - a) % b)

DigitChar(n) ==
    CASE n = 0 -> "0" [] n = 1 -> "1" [] n = 2 -> "2" [] n = 3 -> "3" [] n = 4 -> "4"
      [] n = 5 -> "5" [] n = 6 -> "6" [] n = 7 -> "7" [] n = 8 -> "8" [] n = 9 -> "9"

\* strconv.Itoa for 0..99
Itoa(n) == IF n < 10 THEN << DigitChar(n) >> ELSE << DigitChar(n \div 10), DigitChar(n % 10) >>

RECURSIVE WeightedSum(_, _)
\* the loop of isbn10ToIsbn13 over isbn13[i..], i counted from 1 (Go index i-1)
WeightedSum(isbn13, i) ==
    IF i > Len(isbn13) THEN 0
    ELSE (IF (i - 1) % 2 = 0 THEN 1 ELSE 3) * CharMinusZero(isbn13[i])
         + WeightedSum(isbn13, i + 1)

isbn10ToIsbn13(isbn10) ==
    LET isbn13   == << "9", "7", "8" >> \o SubSeq(isbn10, 1, 9)
        c        == 10 - GoRem(WeightedSum(isbn13, 1), 10)
        checksum == IF c = 10 THEN 0 ELSE c
    IN isbn13 \o Itoa(checksum)

ErrMissingCode == "ASIN or ISBN-13 codes are mandatory"
ErrInvalidAsin == "invalid ASIN code"
ErrInvalidIsbn == "invalid ISBN code"

CodeResult(out, code, e) == [out |-> out, code |-> code, err |-> e]

\* parseBookCode / getBookCode (same body); validateBookCode differs in the
\* pattern, "^(?=(?:\D*\d){10}(?:(?:\D*\d){3})?$)[\d-]+$": regexp/syntax has
\* no lookahead, so regexp.MustCompile panics whenever that line is reached.
BookCode(v, a, i) ==
    IF a = << >> /\ i = << >> THEN CodeResult("err", << >>, ErrMissingCode)
    ELSE IF a # << >> THEN
        IF ~HasPrefix(ToLower(a), << "b" >>)
        THEN CodeResult("err", << >>, ErrInvalidAsin)
        ELSE CodeResult("ok", a, "")
    ELSE IF v = "validateBookCode" THEN CodeResult("panic", << >>, "")
    ELSE IF ~IsbnPatternMatch(i) THEN CodeResult("err", << >>, ErrInvalidIsbn)
    ELSE IF Len(i) = 10 THEN CodeResult("ok", isbn10ToIsbn13(i), "")
    ELSE CodeResult("ok", i, "")


----------------------------------------------------------------------------
(* Field extraction.  A page text is a sequence of tokens: " " is a space,  *)
(* any other token is a word (or a character) without spaces.               *)

RECURSIVE TrimLeft(_)
TrimLeft(s) == IF s # << >> /\ Head(s) = " " THEN TrimLeft(Tail(s)) ELSE s

RECURSIVE TrimRight(_)
TrimRight(s) ==
    IF s # << >> /\ s[Len(s)] = " " THEN TrimRight(SubSeq(s, 1, Len(s) - 1)) ELSE s

\* strings.Trim(s, " ")
Trim(s) == TrimRight(TrimLeft(s))

FieldResult(out, value, e) == [out |-> out, value |-> value, err |-> e]

\* rawText is document.Find(selector).Text()
getTextElement(rawText, elementName) ==
    IF rawText = << >>
    THEN FieldResult("err", << >>, "could not find " \o elementName)
    ELSE FieldResult("ok", Trim(rawText), "")

\* what the page can hold under a scalar selector
RawTexts == { << >>, << " " >>, << " ", "T", " " >> }

\* the texts of the nodes under ".author" / ".author > a", in page order
AuthorNodes == { << >>, << << " ", "A", " " >> >>, << << "A" >>, << " " >> >> }

\* getBookAuthors iterates document.Find(""): the empty selector does not
\* compile and goquery then matches no node, whatever the page holds
getBookAuthors(nodes) ==
    LET matched == SubSeq(nodes, 1, 0)
        authors == [i \in 1..Len(matched) |-> Trim(matched[i])]
    IN IF \E i \in 1..Len(authors) : authors[i] = << >>
       THEN FieldResult("err", << >>, "could not find some/all authors")
       ELSE FieldResult("ok", authors, "")

\* the fragments under the description selector, in document order
DescriptionNodes == { << >>, << << " " >> >>, << << " ", "D", " " >>, << "E" >> >> }

RECURSIVE ConcatTrimmed(_)
\* descriptionBuilder.WriteString(strings.Trim(s.Text(), " ")) for each node
ConcatTrimmed(nodes) ==
    IF nodes = << >> THEN << >> ELSE Trim(Head(nodes)) \o ConcatTrimmed(Tail(nodes))

getBookDescription(nodes) ==
    LET description == ConcatTrimmed(nodes) IN
    IF description = << >>
    THEN FieldResult("err", << >>, "could not find description")
    ELSE FieldResult("ok", description, "")

months ==
    "janeiro" :> "January" @@ "fevereiro" :> "February" @@ "março" :> "March"
    @@ "abril" :> "April" @@ "maio" :> "May" @@ "junho" :> "June"
    @@ "julho" :> "July" @@ "agosto" :> "August" @@ "setembro" :> "September"
    @@ "outubro" :> "October" @@ "novembro" :> "November" @@ "dezembro" :> "December"

MonthNumber ==
    "January" :> 1 @@ "February" :> 2 @@ "March" :> 3 @@ "April" :> 4 @@ "May" :> 5
    @@ "June" :> 6 @@ "July" :> 7 @@ "August" :> 8 @@ "September" :> 9
    @@ "October" :> 10 @@ "November" :> 11 @@ "December" :> 12

\* the day and year numerals the date texts below use
DayValue  == "1" :> 1 @@ "29" :> 29 @@ "31" :> 31
YearValue == "2019" :> 2019 @@ "2020" :> 2020

IsLeap(y) == (y % 4 = 0 /\ y % 100 # 0) \/ y % 400 = 0

DaysIn(m, y) ==
    IF m = 2 THEN (IF IsLeap(y) THEN 29 ELSE 28)
    ELSE IF m \in {4, 6, 9, 11} THEN 30 ELSE 31

ZeroTime == << 1, 1, 1 >>

\* strings.ReplaceAll per month name (at word granularity), then
\* time.Parse("2 January 2006", date)
parseDate(date) ==
    LET en == [i \in 1..Len(date) |->
                  IF date[i] \in DOMAIN months THEN months[date[i]] ELSE date[i]]
    IN IF /\ Len(en) = 5
          /\ en[2] = " " /\ en[4] = " "
          /\ en[1] \in DOMAIN DayValue
          /\ en[3] \in DOMAIN MonthNumber
          /\ en[5] \in DOMAIN YearValue
          /\ DayValue[en[1]] <= DaysIn(MonthNumber[en[3]], YearValue[en[5]])
       THEN FieldResult("ok", << YearValue[en[5]], MonthNumber[en[3]], DayValue[en[1]] >>, "")
       ELSE FieldResult("err", ZeroTime, "parsing time: cannot parse")

DateTexts ==
    { << >>,
      << " ", "1", " ", "novembro", " ", "2019" >>,
      << "31", " ", "fevereiro", " ", "2019" >>,
      << "1", " ", "smarch", " ", "2019" >> }

languages ==
    "Português" :> "pt-BR" @@ "Inglês" :> "en-US" @@ "Espanhol" :> "es"
    @@ "Francês" :> "fr" @@ "Alemão" :> "de" @@ "Italiano" :> "it"

\* language.Tag{} (its String() is "und")
ZeroTag == "und"

\* parseBookCode's file: the lookup miss is an error; getBookCode's file: the
\* map's zero value is returned
languageToIso(v, languageText) ==
    IF Len(languageText) = 1 /\ languageText[1] \in DOMAIN languages
    THEN FieldResult("ok", languages[languageText[1]], "")
    ELSE IF v = "parseBookCode"
         THEN FieldResult("err", ZeroTag, "could not parse language to its ISO equivalent")
         ELSE FieldResult("ok", ZeroTag, "")

LanguageTexts == { << >>, << " ", "Português" >>, << "Klingon" >> }

\* the data-a-dynamic-image attribute: absent, not JSON of the expected type,
\* or a JSON object url -> array of ints
CoverAttr(kind, entries) == [kind |-> kind, entries |-> entries]

CoverEntry(url, size) == [url |-> url, size |-> size]

CoverAttrs ==
    { CoverAttr("absent", {}),
      CoverAttr("malformed", {}),
      CoverAttr("json", {}),
      CoverAttr("json", { CoverEntry("a.jpg", << 100, 200 >>), CoverEntry("b.jpg", << 300, 400 >>) }),
      CoverAttr("json", { CoverEntry("a.jpg", << 100, 500 >>), CoverEntry("b.jpg", << 300, 500 >>) }),
      CoverAttr("json", { CoverEntry("a.jpg", << 100 >>) }),
      CoverAttr("json", { CoverEntry("a.jpg", << 0, 0 >>) }) }

RECURSIVE Orderings(_)
\* the orders in which a range over the map can visit its entries
Orderings(S) ==
    IF S = {} THEN { << >> }
    ELSE UNION { { << x >> \o t : t \in Orderings(S \ {x}) } : x \in S }

RECURSIVE BiggestCover(_, _, _, _)
\* the loop over imageMapping from entry i on
BiggestCover(order, i, biggestCoverUrl, biggestCoverHeight) ==
    IF i > Len(order) THEN FieldResult("ok", biggestCoverUrl, "")
    ELSE IF Len(order[i].size) < 2 THEN FieldResult("panic", "", "index out of range")
    ELSE IF order[i].size[2] > biggestCoverHeight
         THEN BiggestCover(order, i + 1, order[i].url, order[i].size[2])
         ELSE BiggestCover(order, i + 1, biggestCoverUrl, biggestCoverHeight)

\* the outcomes getBookCover can have on one attribute value
getBookCover(attr) ==
    IF attr.kind = "absent" THEN { FieldResult("err", "", "unexpected end of JSON input") }
    ELSE IF attr.kind = "malformed" THEN { FieldResult("err", "", "invalid character") }
    ELSE { BiggestCover(o, 1, "", 0) : o \in Orderings(attr.entries) }


----------------------------------------------------------------------------
(* Inputs of GetBookInfo *)

MaxShortLen == 4     \* every isbn string over IsbnAlphabet up to this length is an input

IsbnAlphabet == {"1", "-", "X"}

RECURSIVE StringsUpTo(_, _)
StringsUpTo(alphabet, n) ==
    IF n = 0 THEN { << >> }
    ELSE LET shorter == StringsUpTo(alphabet, n - 1) IN
         shorter \cup { Append(s, c) : s \in { t \in shorter : Len(t) = n - 1 }, c \in alphabet }

LongIsbns ==
    { <<"8", "5", "3", "5", "9", "3", "1", "0", "0", "4">>,
      <<"8", "5", "3", "5", "9", "3", "1", "0", "0", "X">>,
      <<"8", "5", "-", "3", "5", "9", "-", "3", "1", "0", "0", "-", "4">>,
      <<"9", "7", "8", "8", "5", "3", "5", "9", "3", "1", "0", "0", "8">>,
      <<"9", "7", "8", "-", "8", "5", "-", "3", "5", "9", "-", "3", "1", "0", "0", "-", "8">>,
      <<"8", "5", "3", "5", "9", "3", "1", "0", "0">>,
      <<"9", "7", "8", "8", "5", "3", "5", "9", "3", "1", "0">>,
      <<"9", "7", "8", "8", "5", "3", "5", "9", "3", "1", "0", "0">>,
      <<"9", "7", "8", "8", "5", "3", "5", "9", "3", "1", "0", "0", "8", "1", "2", "3">>,
      <<"8", "5", "3", "5", "9", "3", "1", "0", "0", "4", "1", "2", "3", "4", "5", "6", "7">>,
      <<"1", "-", "2", "3", "-", "4", "5", "-", "6", "7">>,
      <<"0", "-", "-", "-", "-", "0", "-", "0", "-", "0">>,
      <<"8", "5", "3", "5", "9", "a", "1", "0", "0", "4">> }

IsbnInputs == StringsUpTo(IsbnAlphabet, MaxShortLen) \cup LongIsbns

AsinInputs == { << >>, <<"B", "0", "8", "3">>, <<"b", "1">>, <<"A", "1">>, <<"1", "B">> }

----------------------------------------------------------------------------
(* GetBookInfo, step by step *)

ZeroFields ==
    [title |-> << >>, authors |-> << >>, description |-> << >>, publisher |-> << >>,
     publishedAt |-> ZeroTime, language |-> ZeroTag, coverUrl |-> ""]

\* BookInfo{} of the variant's file
EmptyBookInfo(v) ==
    IF v = "parseBookCode"
    THEN [Title |-> << >>, Authors |-> << >>, CoverUrl |-> "", Language |-> ZeroTag,
          Publisher |-> << >>, PublishedAt |-> ZeroTime, Description |-> << >>,
          Asin |-> << >>, Isbn |-> << >>]
    ELSE [Title |-> << >>, Authors |-> << >>, CoverUrl |-> "", Language |-> "",
          Publisher |-> << >>, PublishedAt |-> ZeroTime, Description |-> << >>,
          Subjects |-> << >>, Asin |-> << >>, Isbn |-> << >>]

\* the BookInfo literal GetBookInfo returns on success
BookInfo(v, f, a, code) ==
    LET mobiAsin == IF a # << >> THEN code ELSE << >>
        isbn13   == IF a # << >> THEN << >> ELSE code
    IN CASE v = "parseBookCode" ->
              [Title |-> f.title, Authors |-> f.authors, CoverUrl |-> f.coverUrl,
               Language |-> f.language, Publisher |-> f.publisher,
               PublishedAt |-> f.publishedAt, Description |-> f.description,
               Asin |-> mobiAsin, Isbn |-> isbn13]
         [] v = "validateBookCode" ->
              [Title |-> f.title, Authors |-> f.authors, CoverUrl |-> "",
               Language |-> "", Publisher |-> << >>, PublishedAt |-> ZeroTime,
               Description |-> f.description, Subjects |-> << >>,
               Asin |-> << >>, Isbn |-> << >>]
         [] v = "getBookCode" ->
              [Title |-> f.title, Authors |-> f.authors, CoverUrl |-> f.coverUrl,
               Language |-> f.language, Publisher |-> f.publisher,
               PublishedAt |-> f.publishedAt, Description |-> f.description,
               Subjects |-> << >>, Asin |-> mobiAsin, Isbn |-> isbn13]

BuilderIdle ==
    /\ pkg = "epub"
    /\ opf = << >>
    /\ ret = << >>
    /\ titleTypes = << >>
    /\ op = Op("", "", "", NoRef)

\* nothing read from the page yet
UnreadPage == [authorNodes |-> << >>, coverAttr |-> [kind |-> "unread", entries |-> {}]]

InitScrape ==
    /\ variant \in Variants
    /\ asin \in AsinInputs
    /\ isbn \in IsbnInputs
    /\ pc = "validate"
    /\ codeRes = CodeResult("none", << >>, "")
    /\ fields = ZeroFields
    /\ page = UnreadPage
    /\ steps = << >>
    /\ failedAt = << >>
    /\ rec = EmptyBookInfo(variant)
    /\ err = ""
    /\ BuilderIdle

Failure(step, e) == [step |-> step, err |-> e]

\* the step ran and GetBookInfo goes on to the next one
Advance(step, next, f) ==
    /\ steps' = Append(steps, step)
    /\ pc' = next
    /\ fields' = f
    /\ UNCHANGED <<variant, asin, isbn, failedAt, rec, err>>

\* the step ran, its error was discarded, and GetBookInfo goes on
AdvanceIgnoringError(step, e, next, f) ==
    /\ steps' = Append(steps, step)
    /\ failedAt' = Append(failedAt, Failure(step, e))
    /\ pc' = next
    /\ fields' = f
    /\ UNCHANGED <<variant, asin, isbn, rec, err>>

\* return BookInfo{}, err
ReturnError(step, e) ==
    /\ steps' = Append(steps, step)
    /\ failedAt' = Append(failedAt, Failure(step, e))
    /\ pc' = "returned"
    /\ rec' = EmptyBookInfo(variant)
    /\ err' = e
    /\ UNCHANGED <<variant, asin, isbn, fields>>

\* the step panicked: GetBookInfo returns nothing
Panic(step, e) ==
    /\ steps' = Append(steps, step)
    /\ failedAt' = Append(failedAt, Failure(step, e))
    /\ pc' = "panicked"
    /\ UNCHANGED <<variant, asin, isbn, fields, rec, err>>

\* what a step does with a (value, error) result it checks
Checked(step, r, next, f) ==
    CASE r.out = "ok"    -> Advance(step, next, f)
      [] r.out = "err"   -> ReturnError(step, r.err)
      [] r.out = "panic" -> Panic(step, r.err)

StepValidate ==
    /\ pc = "validate"
    /\ LET r == BookCode(variant, asin, isbn) IN
       /\ codeRes' = r
       /\ Checked("validate", r, "fetch", fields)
    /\ UNCHANGED page
    /\ UNCHANGED builderVars

\* GrabContent(browserlessToken, url): the page bytes, or an error
StepFetch ==
    /\ pc = "fetch"
    /\ \/ Advance("fetch", "parse", fields)
       \/ ReturnError("fetch", "GrabContent failed")
    /\ UNCHANGED <<codeRes, page>>
    /\ UNCHANGED builderVars

\* goquery.NewDocumentFromReader
StepParse ==
    /\ pc = "parse"
    /\ \/ Advance("parse", "title", fields)
       \/ ReturnError("parse", "NewDocumentFromReader failed")
    /\ UNCHANGED <<codeRes, page>>
    /\ UNCHANGED builderVars

StepTitle ==
    /\ pc = "title"
    /\ \E raw \in RawTexts :
          IF variant = "parseBookCode"
          THEN LET r == getTextElement(raw, "title") IN
               Checked("title", r, "authors", [fields EXCEPT !.title = r.value])
          ELSE Advance("title", "authors", [fields EXCEPT !.title = Trim(raw)])
    /\ UNCHANGED <<codeRes, page>>
    /\ UNCHANGED builderVars

StepAuthors ==
    /\ pc = "authors"
    /\ \E nodes \in AuthorNodes :
          /\ page' = [page EXCEPT !.authorNodes = nodes]
          /\ IF variant = "parseBookCode"
             THEN LET r == getBookAuthors(nodes) IN
                  Checked("authors", r, "description", [fields EXCEPT !.authors = r.value])
             ELSE Advance("authors", "description", [fields EXCEPT !.authors = nodes])
    /\ UNCHANGED codeRes
    /\ UNCHANGED builderVars

StepDescription ==
    /\ pc = "description"
    /\ \E nodes \in DescriptionNodes :
          IF variant = "parseBookCode"
          THEN LET r == getBookDescription(nodes) IN
               Checked("description", r, "publisher", [fields EXCEPT !.description = r.value])
          ELSE Advance("description",
                       IF variant = "validateBookCode" THEN "assemble" ELSE "publisher",
                       [fields EXCEPT !.description = ConcatTrimmed(nodes)])
    /\ UNCHANGED <<codeRes, page>>
    /\ UNCHANGED builderVars

StepPublisher ==
    /\ pc = "publisher"
    /\ \E raw \in RawTexts :
          IF variant = "parseBookCode"
          THEN LET r == getTextElement(raw, "publisher") IN
               Checked("publisher", r, "date", [fields EXCEPT !.publisher = r.value])
          ELSE Advance("publisher", "date", [fields EXCEPT !.publisher = Trim(raw)])
    /\ UNCHANGED <<codeRes, page>>
    /\ UNCHANGED builderVars

\* getBookPublishedDate, resp. publishedAt, _ := parseDate(publishedAtText)
StepDate ==
    /\ pc = "date"
    /\ \E raw \in DateTexts :
          IF variant = "parseBookCode"
          THEN LET t == getTextElement(raw, "publishedAt")
                   r == IF t.out = "err" THEN FieldResult("err", ZeroTime, t.err)
                                         ELSE parseDate(t.value)
               IN Checked("date", r, "language", [fields EXCEPT !.publishedAt = r.value])
          ELSE LET r == parseDate(Trim(raw)) IN
               IF r.out = "err"
               THEN AdvanceIgnoringError("date", r.err, "language",
                                         [fields EXCEPT !.publishedAt = r.value])
               ELSE Advance("date", "language", [fields EXCEPT !.publishedAt = r.value])
    /\ UNCHANGED <<codeRes, page>>
    /\ UNCHANGED builderVars

\* getBookLanguage, resp. languageToIso(languageText) and languageTag.String()
StepLanguage ==
    /\ pc = "language"
    /\ \E raw \in LanguageTexts :
          IF variant = "parseBookCode"
          THEN LET t == getTextElement(raw, "language")
                   r == IF t.out = "err" THEN FieldResult("err", ZeroTag, t.err)
                                         ELSE languageToIso(variant, t.value)
               IN Checked("language", r, "cover", [fields EXCEPT !.language = r.value])
          ELSE Advance("language", "cover",
                       [fields EXCEPT !.language = languageToIso(variant, Trim(raw)).value])
    /\ UNCHANGED <<codeRes, page>>
    /\ UNCHANGED builderVars

StepCover ==
    /\ pc = "cover"
    /\ \E attr \in CoverAttrs : \E r \in getBookCover(attr) :
          /\ page' = [page EXCEPT !.coverAttr = attr]
          /\ Checked("cover", r, "assemble", [fields EXCEPT !.coverUrl = r.value])
    /\ UNCHANGED codeRes
    /\ UNCHANGED builderVars

\* return BookInfo{...}, nil
StepAssemble ==
    /\ pc = "assemble"
    /\ pc' = "returned"
    /\ rec' = BookInfo(variant, fields, asin, codeRes.code)
    /\ err' = ""
    /\ UNCHANGED <<variant, asin, isbn, codeRes, fields, page, steps, failedAt>>
    /\ UNCHANGED builderVars

NextScrape ==
    \/ StepValidate
    \/ StepFetch
    \/ StepParse
    \/ StepTitle
    \/ StepAuthors
    \/ StepDescription
    \/ StepPublisher
    \/ StepDate
    \/ StepLanguage
    \/ StepCover
    \/ StepAssemble

SpecScrape == InitScrape /\ [][NextScrape]_vars

----------------------------------------------------------------------------
(* Properties of the builder *)

Digit == << "0", "1", "2", "3", "4", "5", "6", "7", "8", "9" >>

\* k written with two decimal digits, for 0 <= k <= 99
TwoDigits(k) == Digit[(k \div 10) + 1] \o Digit[(k % 10) + 1]

ElementIds(d) ==
    { d.Identifier[i].ID : i \in 1..Len(d.Identifier) }
      \cup { d.Titles[i].ID : i \in 1..Len(d.Titles) }
      \cup { d.Creators[i].ID : i \in 1..Len(d.Creators) }
      \cup { d.Contributors[i].ID : i \in 1..Len(d.Contributors) }

RefInDocument(d, r) ==
    \/ \E i \in 1..Len(d.Creators) : d.Creators[i].ID = r.ID
    \/ \E i \in 1..Len(d.Contributors) : d.Contributors[i].ID = r.ID

IsTitleTypeMeta(m) == m.Property = "title-type"

RoleCode == [Author |-> "aut", Translator |-> "trl", Editor |-> "edt", Illustrator |-> "ill"]

\* C1: in every reachable state, every meta with a non-empty refines has
\* refines = "#" + id of an element currently among the identifiers, titles,
\* creators or contributors of the same document (no dangling reference),
\* whatever ContributorElement the Add*ToContributor operations were given.
C1_NoDanglingRefines ==
    \A i \in 1..Len(opf.Metas) :
        opf.Metas[i].Refines # "" =>
            \E id \in ElementIds(opf) : opf.Metas[i].Refines = "#" \o id

\* C2: after N AddTitle calls (the constructor's included) the titles are N
\* entries with ids title01, title02, ... in insertion order, and the metas
\* hold exactly N "title-type" entries, the k-th refining the k-th title and
\* carrying the name of the type passed to the k-th call.
C2_TitleIdsAndMetas ==
    LET n  == Len(titleTypes)
        tm == SelectSeq(opf.Metas, IsTitleTypeMeta)
    IN /\ Len(opf.Titles) = n
       /\ Len(tm) = n
       /\ \A k \in 1..n :
            /\ opf.Titles[k].ID = "title" \o TwoDigits(k)
            /\ tm[k].Refines = "#" \o opf.Titles[k].ID
            /\ tm[k].Value = TitleTypeString(titleTypes[k])

\* C3: AddContributor(name, role) appends exactly one {value: name, id} to
\* creators when role is Author and to contributors otherwise, leaves the
\* other sequence unchanged, numbers the id creatorNN / contributorNN by the
\* new length of that category alone, appends exactly one role meta
\* {property "role", scheme "marc:relators", refines "#"+id, value role code},
\* and returns a reference carrying that id.
C3_AddContributorEffect ==
    [][ op'.name = "AddContributor" =>
          LET role == op'.kind
              id   == IF role = "Author"
                      THEN "creator" \o TwoDigits(Len(opf.Creators) + 1)
                      ELSE "contributor" \o TwoDigits(Len(opf.Contributors) + 1)
              elem == [Value |-> op'.text, ID |-> id]
          IN /\ opf'.Creators = IF role = "Author" THEN Append(opf.Creators, elem)
                                                   ELSE opf.Creators
             /\ opf'.Contributors = IF role = "Author" THEN opf.Contributors
                                                       ELSE Append(opf.Contributors, elem)
             /\ opf'.Metas = Append(opf.Metas,
                                    [Value |-> RoleCode[role], Refines |-> "#" \o id,
                                     Property |-> "role", Scheme |-> "marc:relators",
                                     XMLLanguage |-> ""])
             /\ opf'.Titles = opf.Titles /\ opf'.Identifier = opf.Identifier
             /\ Len(ret') = 1 /\ ret'[1].ID = id
      ]_vars

\* a Translator was just added as contributor01 while two creators exist
C3_Witness ==
    /\ op.name = "AddContributor" /\ op.kind = "Translator"
    /\ Len(opf.Creators) = 2 /\ Len(opf.Contributors) = 1
    /\ opf.Contributors[1].ID = "contributor01"

\* C4: there is at least one identifier, exactly one identifier entry has
\* id = the unique-identifier attribute, and no title, creator or
\* contributor carries that id.
C4_UniqueIdentifier ==
    /\ Len(opf.Identifier) >= 1
    /\ Cardinality({ i \in 1..Len(opf.Identifier) :
                        opf.Identifier[i].ID = opf.UniqueID }) = 1
    /\ \A i \in 1..Len(opf.Titles) : opf.Titles[i].ID # opf.UniqueID
    /\ \A i \in 1..Len(opf.Creators) : opf.Creators[i].ID # opf.UniqueID
    /\ \A i \in 1..Len(opf.Contributors) : opf.Contributors[i].ID # opf.UniqueID

\* a document that has grown past construction in every category
C4_Witness ==
    /\ Len(opf.Titles) >= 2
    /\ Len(opf.Creators) >= 1
    /\ Len(opf.Contributors) >= 1
    /\ opf.Description # ""

\* C5: AddAlternateNameToContributor and AddSortNameToContributor, given a
\* reference whose id is the id of no creator or contributor of the document,
\* leave the document unchanged (they fail with UnknownReference).
C5_UnknownReferenceRejected ==
    [][ ( /\ op'.name \in {"AddAlternateNameToContributor", "AddSortNameToContributor"}
          /\ ~RefInDocument(opf, op'.ref) )
        => opf' = opf ]_vars

----------------------------------------------------------------------------
(* Properties of the code validator and of the extraction pipeline *)

DigitValue ==
    "0" :> 0 @@ "1" :> 1 @@ "2" :> 2 @@ "3" :> 3 @@ "4" :> 4
    @@ "5" :> 5 @@ "6" :> 6 @@ "7" :> 7 @@ "8" :> 8 @@ "9" :> 9

IsDigitChar(c) == c \in DOMAIN DigitValue

HasCheckX(s) == s # << >> /\ s[Len(s)] = "X"

\* the string without its trailing check character X, if it has one
IsbnBody(s) == IF HasCheckX(s) THEN SubSeq(s, 1, Len(s) - 1) ELSE s

\* the digits of an isbn string, the check character counted
DigitCount(s) == Len(SelectSeq(IsbnBody(s), IsDigitChar)) + (IF HasCheckX(s) THEN 1 ELSE 0)

\* the ISBN shape of the specification: digits and hyphens only, an optional
\* trailing X for the 10-digit form, and 10 or 13 digits in all
IsbnShape(s) ==
    /\ \A i \in 1..Len(IsbnBody(s)) : IsDigitChar(IsbnBody(s)[i]) \/ IsbnBody(s)[i] = "-"
    /\ \/ DigitCount(s) = 10
       \/ DigitCount(s) = 13 /\ ~HasCheckX(s)

AsinStartsWithB(a) == a # << >> /\ a[1] \in {"B", "b"}

Validated == codeRes.out # "none"

\* C6: validate(asin, isbn) gives MissingCode exactly when both are empty;
\* otherwise, with asin non-empty, InvalidAsin exactly when asin does not
\* start with B or b and else asin unchanged; otherwise InvalidIsbn exactly
\* when isbn does not have the ISBN shape, and success else.  No other outcome.
C6_ValidatePrecedence ==
    Validated =>
        IF asin = << >> /\ isbn = << >>
        THEN codeRes = CodeResult("err", << >>, ErrMissingCode)
        ELSE IF asin # << >>
        THEN IF AsinStartsWithB(asin)
             THEN codeRes = CodeResult("ok", asin, "")
             ELSE codeRes = CodeResult("err", << >>, ErrInvalidAsin)
        ELSE IF IsbnShape(isbn)
             THEN codeRes.out = "ok"
             ELSE codeRes = CodeResult("err", << >>, ErrInvalidIsbn)

\* C7: with asin empty, a non-empty isbn is accepted if and only if it is
\* made of digits and hyphens (plus an optional trailing X for the 10-digit
\* form) with exactly 10 or exactly 13 digits; every other one is rejected
\* with InvalidIsbn.
C7_IsbnAcceptedIffTenOrThirteenDigits ==
    (Validated /\ asin = << >> /\ isbn # << >>) =>
        /\ (codeRes.out = "ok") <=> IsbnShape(isbn)
        /\ ~IsbnShape(isbn) => (codeRes.out = "err" /\ codeRes.err = ErrInvalidIsbn)

RECURSIVE Isbn13Sum(_, _)
\* the sum of the digits from position i on, weighted 1, 3, 1, 3, ...
Isbn13Sum(ds, i) ==
    IF i > Len(ds) THEN 0
    ELSE (IF i % 2 = 1 THEN 1 ELSE 3) * DigitValue[ds[i]] + Isbn13Sum(ds, i + 1)

Isbn13CheckDigit(twelve) == (10 - (Isbn13Sum(twelve, 1) % 10)) % 10

\* "978", the first nine digits of the input, and the ISBN-13 check digit
ExpectedIsbn13(s) ==
    LET twelve == << "9", "7", "8" >> \o SubSeq(SelectSeq(IsbnBody(s), IsDigitChar), 1, 9)
    IN Append(twelve, Digit[Isbn13CheckDigit(twelve) + 1])

\* C8: for every accepted isbn with exactly 10 digits (hyphens or a trailing
\* X or not) validate returns the 13 digits "978" + first nine digits + check
\* digit (10 - weighted sum mod 10) mod 10.
C8_TenDigitIsbnConverted ==
    (codeRes.out = "ok" /\ asin = << >> /\ DigitCount(isbn) = 10) =>
        codeRes.code = ExpectedIsbn13(isbn)

\* the example given with C8: validate("", "8535931004") returns "9788535931008"
\* (the check digit of 978853593100 by C8's own formula is 6)
C8_Example ==
    (Validated /\ variant = "parseBookCode" /\ asin = << >>
       /\ isbn = << "8", "5", "3", "5", "9", "3", "1", "0", "0", "4" >>) =>
        codeRes.code = << "9", "7", "8", "8", "5", "3", "5", "9", "3", "1", "0", "0", "8" >>

ReturnedOk == pc = "returned" /\ err = ""

\* C9: every record GetBookInfo returns with a nil error has exactly one of
\* Asin and Isbn non-empty: Asin is the validated code and Isbn is empty when
\* an asin was supplied, Isbn is the validated code and Asin empty otherwise.
C9_ExactlyOneOfAsinIsbn ==
    ReturnedOk =>
        /\ (rec.Asin # << >>) # (rec.Isbn # << >>)
        /\ asin # << >> => (rec.Asin = codeRes.code /\ rec.Isbn = << >>)
        /\ asin = << >> => (rec.Isbn = codeRes.code /\ rec.Asin = << >>)

StepOrder ==
    << "validate", "fetch", "parse", "title", "authors", "description",
       "publisher", "date", "language", "cover" >>

IsPrefix(s, t) == Len(s) <= Len(t) /\ s = SubSeq(t, 1, Len(s))

Executed(step) == \E i \in 1..Len(steps) : steps[i] = step

\* C10: the steps run in the fixed order; once a step has failed no later
\* step runs, the error returned is that step's error and the record is the
\* empty record; a populated record is returned only when every step
\* succeeded, so never with a date or a language that failed to parse.
C10_FailFast ==
    pc = "returned" =>
        /\ IsPrefix(steps, StepOrder)
        /\ failedAt # << >> =>
              /\ Len(failedAt) = 1
              /\ steps[Len(steps)] = failedAt[1].step
              /\ err = failedAt[1].err
              /\ rec = EmptyBookInfo(variant)
        /\ rec # EmptyBookInfo(variant) => (failedAt = << >> /\ err = "")
        /\ (err = "" /\ Executed("date")) => rec.PublishedAt # ZeroTime
        /\ (err = "" /\ Executed("language")) => rec.Language # ZeroTag

\* a page with no author node, or with one whose trimmed text is empty
AuthorsMissing(nodes) ==
    \/ nodes = << >>
    \/ \E i \in 1..Len(nodes) : Trim(nodes[i]) = << >>

\* C11: in every successfully extracted record the authors are non-empty,
\* one trimmed entry per author node of the page in page order, none empty;
\* a page with no author node, or with one whose trimmed text is empty,
\* makes the extraction fail at the authors step with that step's error.
C11_AuthorsOnePerNodeTrimmed ==
    /\ (ReturnedOk /\ Executed("authors")) =>
          /\ rec.Authors # << >>
          /\ Len(rec.Authors) = Len(page.authorNodes)
          /\ \A i \in 1..Len(rec.Authors) :
                rec.Authors[i] = Trim(page.authorNodes[i]) /\ rec.Authors[i] # << >>
    /\ (pc = "returned" /\ Executed("authors") /\ AuthorsMissing(page.authorNodes)) =>
          /\ failedAt # << >>
          /\ failedAt[1].step = "authors"
          /\ err = failedAt[1].err
          /\ err # ""

\* the attribute is absent, malformed, an empty mapping, or has an entry without a height
CoverUnusable(attr) ==
    \/ attr.kind \in {"absent", "malformed"}
    \/ attr.entries = {}
    \/ \E e \in attr.entries : Len(e.size) < 2

IsMaxHeight(attr, e) == \A f \in attr.entries : f.size[2] <= e.size[2]

\* C12: cover extraction never succeeds with an empty URL: on an absent,
\* malformed or empty mapping, or one with an entry lacking a height, it
\* fails with an error; otherwise it returns a URL of the mapping whose
\* height is the maximum, the same for every iteration order of the mapping.
C12_CoverLargestOrError ==
    Executed("cover") =>
        IF CoverUnusable(page.coverAttr)
        THEN /\ pc = "returned"
             /\ failedAt[Len(failedAt)].step = "cover"
             /\ err = failedAt[Len(failedAt)].err
             /\ err # ""
        ELSE /\ pc # "panicked"
             /\ \A i \in 1..Len(failedAt) : failedAt[i].step # "cover"
             /\ fields.coverUrl # ""
             /\ \E e \in page.coverAttr.entries :
                   e.url = fields.coverUrl /\ IsMaxHeight(page.coverAttr, e)
             /\ Cardinality({ r.value : r \in getBookCover(page.coverAttr) }) = 1

IsModifiedMeta(m) == m.Property = "dcterms:modified"

IsRoleMeta(m) == m.Property = "role"

ElementCount(d) ==
    Len(d.Identifier) + Len(d.Titles) + Len(d.Creators) + Len(d.Contributors)

DistinctIds == Cardinality(ElementIds(opf)) = ElementCount(opf)

SequencesExtended ==
    /\ IsPrefix(opf.Identifier, opf'.Identifier)
    /\ IsPrefix(opf.Titles, opf'.Titles)
    /\ IsPrefix(opf.Creators, opf'.Creators)
    /\ IsPrefix(opf.Contributors, opf'.Contributors)
    /\ IsPrefix(opf.Metas, opf'.Metas)

SequencesUnchanged ==
    /\ opf'.Identifier = opf.Identifier
    /\ opf'.Titles = opf.Titles
    /\ opf'.Creators = opf.Creators
    /\ opf'.Contributors = opf.Contributors
    /\ opf'.Metas = opf.Metas

AppendOnlyStep ==
    /\ SequencesExtended
    /\ op'.name = "SetDescription" =>
          /\ opf' = [opf EXCEPT !.Description = op'.text]
          /\ SequencesUnchanged
    /\ op'.name = "SetPublisher" =>
          /\ opf' = [opf EXCEPT !.Publisher = op'.text]
          /\ SequencesUnchanged
    /\ op'.name = "SetPublicationDate" =>
          /\ opf' = [opf EXCEPT !.Date = op'.text]
          /\ SequencesUnchanged

\* C14: the builder is append-only: across every builder operation each of
\* identifiers, titles, creators, contributors and metas before the step is a
\* prefix of the same sequence after it, and the ids of titles, creators,
\* contributors and identifiers are pairwise distinct in every reachable
\* state; SetDescription, SetPublisher and SetPublicationDate change only
\* their own field and leave the five sequences as they were.
C14_AppendOnly == []DistinctIds /\ [][AppendOnlyStep]_vars

\* a document with several titles and contributors whose publication date
\* has just been set
C14_Witness ==
    /\ op.name = "SetPublicationDate"
    /\ Len(opf.Titles) >= 2
    /\ Len(opf.Contributors) >= 1
    /\ opf.Date # ""

====
